---- MODULE Spec2Model ----
(***************************************************************************)
(* A model of the recipe scraper (src/recipe-scraper/recipe_scraper.py):   *)
(* text sanitisation, duration parsing, structured-data selection,         *)
(* instruction flattening, normalisation and the scrape pipeline.          *)
(*                                                                         *)
(* Strings are sequences of characters.  To keep the alphabets small a     *)
(* character is written as a TLA+ string; the entity bodies "amp;", "lt;", *)
(* "gt;" and "nbsp;" are atoms standing for those character runs (they are *)
(* only ever recognised whole, right after "&"), "ZW" is U+200B, "NBSP" is *)
(* U+00A0 and "NL" is a newline.                                           *)
(***************************************************************************)
EXTENDS Integers, Sequences, FiniteSets, TLC

VARIABLES
    pc,         \* where the program is: the call being made, or the step of scrape
    arg,        \* the argument of a function called on its own
    rets,       \* what the calls of that function returned, in order
    url,        \* the address scrape was called with
    fetches,    \* the number of requests fetch has issued
    final_url,  \* the address after redirects, as fetch returned it
    content,    \* the page fetch returned
    response,   \* what the network answered the request with
    data,       \* what parse_structured returned
    result      \* what scrape returned or raised

vars == <<pc, arg, rets, url, fetches, response, final_url, content, data, result>>

\* The variables of scrape, and their values while a function is called on
\* its own.
pipeline == <<url, fetches, response, final_url, content, data, result>>

NoPipeline ==
    /\ url = <<>> /\ fetches = 0 /\ final_url = <<>>
    /\ response = [k |-> "null"]
    /\ content = [k |-> "null"] /\ data = [k |-> "null"] /\ result = [k |-> "null"]

Range(s) == {s[i] : i \in 1..Len(s)}

RECURSIVE SeqsUpTo(_, _)
\* All sequences over S of length at most n.
SeqsUpTo(S, n) ==
    IF n = 0 THEN {<<>>}
    ELSE LET shorter == SeqsUpTo(S, n - 1)
         IN  shorter \cup {Append(s, x) : s \in {t \in shorter : Len(t) = n - 1}, x \in S}

---------------------------------------------------------------------------
(* Text cleanup utilities                                                  *)

\* html.unescape on the entities of the alphabet: "&" followed by an entity
\* body is replaced by the character it names.
EntityChar == ("amp;" :> "&") @@ ("lt;" :> "<") @@ ("gt;" :> ">") @@ ("nbsp;" :> "NBSP")

RECURSIVE unescape(_)
unescape(s) ==
    IF s = <<>> THEN <<>>
    ELSE IF Head(s) = "&" /\ Len(s) >= 2 /\ s[2] \in DOMAIN EntityChar
         THEN <<EntityChar[s[2]]>> \o unescape(SubSeq(s, 3, Len(s)))
         ELSE <<Head(s)>> \o unescape(Tail(s))

\* Characters that can start a tag name after "<".
NameChars == {"b", "g"}

RECURSIVE AfterTag(_)
\* What follows the tag whose "<" has just been consumed: the text after the
\* next ">", or nothing when the tag is never closed.
AfterTag(s) ==
    IF s = <<>> THEN <<>>
    ELSE IF Head(s) = ">" THEN Tail(s)
    ELSE AfterTag(Tail(s))

RECURSIVE text_content(_)
\* lxml_html.fromstring(s).text_content(): tags are dropped, a "<" that starts
\* no tag is text, and character references in text are decoded.
text_content(s) ==
    IF s = <<>> THEN <<>>
    ELSE IF Head(s) = "<" /\ Len(s) >= 2 /\ s[2] \in NameChars
         THEN text_content(AfterTag(Tail(s)))
    ELSE IF Head(s) = "&" /\ Len(s) >= 2 /\ s[2] \in DOMAIN EntityChar
         THEN <<EntityChar[s[2]]>> \o text_content(SubSeq(s, 3, Len(s)))
    ELSE <<Head(s)>> \o text_content(Tail(s))

_strip_html_tags(s) ==
    IF "<" \in Range(s) /\ ">" \in Range(s) THEN text_content(s) ELSE s

ZERO_WIDTH == {"ZW"}

remove_zero_width(s) == SelectSeq(s, LAMBDA c : c \notin ZERO_WIDTH)

replace_nbsp(s) == [i \in 1..Len(s) |-> IF s[i] = "NBSP" THEN " " ELSE s[i]]

RECURSIVE collapse_spaces(_)
\* re.sub(r"[ \t\f\v]+", " ", s): a run of spaces becomes one space.
collapse_spaces(s) ==
    IF Len(s) < 2 THEN s
    ELSE IF s[1] = " " /\ s[2] = " " THEN collapse_spaces(Tail(s))
    ELSE <<Head(s)>> \o collapse_spaces(Tail(s))

Whitespace == {" ", "NL"}

RECURSIVE lstrip(_)
lstrip(s) == IF s # <<>> /\ Head(s) \in Whitespace THEN lstrip(Tail(s)) ELSE s

RECURSIVE rstrip(_)
rstrip(s) ==
    IF s # <<>> /\ s[Len(s)] \in Whitespace THEN rstrip(SubSeq(s, 1, Len(s) - 1)) ELSE s

\* str.strip()
strip(s) == rstrip(lstrip(s))

\* The alphabet holds no combining character, so NFC leaves its strings alone.
normalize_NFC(s) == s

\* clean_text on a string (its "s is None" guard is never taken from
\* deep_clean, which calls it on strings only).
clean_text(s) ==
    strip(collapse_spaces(replace_nbsp(remove_zero_width(
        normalize_NFC(_strip_html_tags(unescape(s)))))))

---------------------------------------------------------------------------
(* JSON-like values: the closed sum {null, string, number, list, object},  *)
(* each tagged with its kind, and the outcome of a call that raises.       *)

Null == [k |-> "null"]
Str(s) == [k |-> "str", v |-> s]
Num(n) == [k |-> "int", v |-> n]
List(l) == [k |-> "list", v |-> l]
Dict(d) == [k |-> "dict", v |-> d]
Raised(e) == [k |-> "raise", v |-> e]

\* Python truthiness of a value.
Truthy(x) ==
    CASE x.k = "null" -> FALSE
      [] x.k = "str"  -> x.v # <<>>
      [] x.k = "int"  -> x.v # 0
      [] x.k = "list" -> x.v # <<>>
      [] x.k = "dict" -> DOMAIN x.v # {}

\* dict.get(key): the value, or None when the key is missing.
Get(d, key) == IF key \in DOMAIN d.v THEN d.v[key] ELSE Null

\* a or b
Or(a, b) == IF Truthy(a) THEN a ELSE b

---------------------------------------------------------------------------
(* Duration parsing                                                        *)

Digits == {"0", "1", "2", "3", "4", "5", "6", "7", "8", "9"}

DigitVal == ("0" :> 0) @@ ("1" :> 1) @@ ("2" :> 2) @@ ("3" :> 3) @@ ("4" :> 4)
            @@ ("5" :> 5) @@ ("6" :> 6) @@ ("7" :> 7) @@ ("8" :> 8) @@ ("9" :> 9)

DigitChar == <<"0", "1", "2", "3", "4", "5", "6", "7", "8", "9">>

RECURSIVE ToDigits(_)
\* The decimal digits of a natural number.
ToDigits(n) ==
    IF n < 10 THEN <<DigitChar[n + 1]>>
    ELSE ToDigits(n \div 10) \o <<DigitChar[(n % 10) + 1]>>

RECURSIVE ToInt(_)
\* int(digits)
ToInt(ds) ==
    IF ds = <<>> THEN 0
    ELSE 10 * ToInt(SubSeq(ds, 1, Len(ds) - 1)) + DigitVal[ds[Len(ds)]]

RECURSIVE DigitRun(_, _)
\* The length of the longest run of digits of s that starts at pos (\d+).
DigitRun(s, pos) ==
    IF pos <= Len(s) /\ s[pos] \in Digits THEN 1 + DigitRun(s, pos + 1) ELSE 0

RECURSIVE SpaceRun(_, _)
\* The length of the run of white space of s that starts at pos (\s*).
SpaceRun(s, pos) ==
    IF pos <= Len(s) /\ s[pos] \in Whitespace THEN 1 + SpaceRun(s, pos + 1) ELSE 0

NoGroup(pos) == [ok |-> FALSE, val |-> 0, next |-> pos]

\* (?:(\d+)<unit>)? of _ISO_DUR at pos: the number and the place after it, or
\* the group skipped.
IsoGroup(s, pos, unit) ==
    LET n == DigitRun(s, pos)
    IN  IF n > 0 /\ pos + n <= Len(s) /\ s[pos + n] = unit
        THEN [ok |-> TRUE, val |-> ToInt(SubSeq(s, pos, pos + n - 1)), next |-> pos + n + 1]
        ELSE NoGroup(pos)

\* _ISO_DUR.match(s): the four groups (0 for a group that took no part), or no
\* match.
IsoMatch(s) ==
    IF s = <<>> \/ s[1] # "P" THEN [ok |-> FALSE]
    ELSE LET d == IsoGroup(s, 2, "D")
             hasT == d.next <= Len(s) /\ s[d.next] = "T"
             h == IsoGroup(s, d.next + 1, "H")
             m == IsoGroup(s, h.next, "M")
             sec == IsoGroup(s, m.next, "S")
         IN  IF hasT /\ sec.next = Len(s) + 1
             THEN [ok |-> TRUE, days |-> d.val, hours |-> h.val,
                   minutes |-> m.val, seconds |-> sec.val]
             ELSE IF d.next = Len(s) + 1
             THEN [ok |-> TRUE, days |-> d.val, hours |-> 0, minutes |-> 0, seconds |-> 0]
             ELSE [ok |-> FALSE]

\* re.I: the lower-case form of the letters the patterns name.
Lower(c) ==
    CASE c = "D" -> "d" [] c = "H" -> "h" [] c = "M" -> "m" [] c = "S" -> "s"
      [] c = "P" -> "p" [] c = "T" -> "t" [] OTHER -> c

Letters == {"P", "T", "D", "H", "M", "S", "p", "t", "d", "h", "m", "s",
            "a", "y", "o", "u", "r", "i", "n", "e", "b", "x"}

WordChars == Letters \cup Digits

\* Whether s continues at pos with the characters of w, whatever their case.
StartsWith(s, pos, w) ==
    /\ pos + Len(w) - 1 <= Len(s)
    /\ \A i \in 1..Len(w) : Lower(s[pos + i - 1]) = w[i]

\* \b after a letter: the end of the string, or a character that is no word
\* character.
Boundary(s, pos) == pos > Len(s) \/ s[pos] \notin WordChars

DaySuffixes == {<<"a", "y", "s">>, <<"a", "y">>, <<>>}
HourSuffixes == {<<"o", "u", "r", "s">>, <<"o", "u", "r">>, <<"r", "s">>, <<"r">>, <<>>}
MinuteSuffixes == {<<"i", "n", "s">>, <<"i", "n", "u", "t", "e", "s">>, <<"i", "n">>, <<>>}

\* (?:(\d+)\s*<unit><suffix>?\b)? of _HUMAN_DUR at pos.
HumanGroup(s, pos, unit, suffixes) ==
    LET n == DigitRun(s, pos)
        u == pos + n + SpaceRun(s, pos + n)
        fits == {w \in suffixes : StartsWith(s, u + 1, w) /\ Boundary(s, u + 1 + Len(w))}
    IN  IF n > 0 /\ u <= Len(s) /\ Lower(s[u]) = unit /\ fits # {}
        THEN [ok |-> TRUE, val |-> ToInt(SubSeq(s, pos, pos + n - 1)),
              next |-> u + 1 + Len(CHOOSE w \in fits : TRUE)]
        ELSE NoGroup(pos)

\* _HUMAN_DUR.search(s): every part of the pattern is optional, so it matches
\* (possibly the empty string) where the string starts, and the search never
\* moves on from there.
HumanSearch(s) ==
    LET d == HumanGroup(s, 1, "d", DaySuffixes)
        p2 == d.next + SpaceRun(s, d.next)
        h == HumanGroup(s, p2, "h", HourSuffixes)
        p3 == h.next + SpaceRun(s, h.next)
        m == HumanGroup(s, p3, "m", MinuteSuffixes)
    IN  [d |-> d.val, h |-> h.val, mi |-> m.val]

\* "total or None" with the "or None" left out.
OrNone_zero(total) == Num(total)

\* total or None
OrNone(total) == IF total # 0 THEN Num(total) ELSE Null

_minutes(iso_like) ==
    IF ~Truthy(iso_like) THEN Null
    ELSE IF iso_like.k # "str" THEN Raised("AttributeError")
    ELSE LET s == strip(iso_like.v)
             m == IsoMatch(s)
             hm == HumanSearch(s)
         IN  IF m.ok
             THEN OrNone(m.days * 1440 + m.hours * 60 + m.minutes + (m.seconds \div 60))
             ELSE OrNone(hm.d * 1440 + hm.h * 60 + hm.mi)

---------------------------------------------------------------------------
(* Selecting the Recipe object from the structured data of a page          *)

Recipe == Str(<<"Recipe">>)

_coerce_list(v) ==
    IF v = Null THEN List(<<>>)
    ELSE IF v.k = "list" THEN v
    ELSE List(<<v>>)

IsDict(x) == x.k = "dict"

\* The object alone, its "@graph" not looked into.
WithGraph_ignored(obj) == <<obj>>

\* An object, then the objects of its "@graph" when that is a list.
WithGraph(obj) ==
    LET graph == Get(obj, "@graph")
    IN  <<obj>> \o (IF graph.k = "list" THEN SelectSeq(graph.v, IsDict) ELSE <<>>)

RECURSIVE Chain(_)
\* The sequences of ls one after the other, as one sequence.
Chain(ls) == IF ls = <<>> THEN <<>> ELSE Head(ls) \o Chain(Tail(ls))

\* What one block of the JSON-LD list yields.
BlockObjects(block) ==
    IF block.k = "dict" THEN WithGraph(block)
    ELSE IF block.k = "list"
    THEN LET members == SelectSeq(block.v, IsDict)
         IN  Chain([i \in 1..Len(members) |-> WithGraph(members[i])])
    ELSE <<>>

\* The objects _iter_jsonld_objects yields, in the order it yields them.
_iter_jsonld_objects(jsonld_list) ==
    Chain([i \in 1..Len(jsonld_list) |-> BlockObjects(jsonld_list[i])])

\* t == "Recipe" or (isinstance(t, list) and "Recipe" in t)
JsonLdMatches(obj) ==
    LET t == Get(obj, "@type")
    IN  t = Recipe \/ (t.k = "list" /\ Recipe \in Range(t.v))

\* "Recipe" in _coerce_list(item.get("@type") or [])
ItemMatches(item) ==
    LET types == Or(Get(item, "@type"), List(<<>>))
    IN  Recipe \in Range(_coerce_list(types).v)

\* The element of l a loop returns on, given which elements its test accepts:
\* the first accepted one, or None when the loop runs out.
FirstMatch(l, accepted) ==
    IF \E i \in 1..Len(l) : accepted[i]
    THEN l[CHOOSE i \in 1..Len(l) : accepted[i] /\ \A j \in 1..(i - 1) : ~accepted[j]]
    ELSE Null

\* The items the microdata / RDFa loop walks: one syntax after the other.
FallbackItems(extracted) == Get(extracted, "microdata").v \o Get(extracted, "rdfa").v

\* parse_structured, given what extruct.extract returned for the page: the
\* dictionary of the three syntaxes, or the exception a parser raised, which
\* nothing here catches.
parse_structured(extracted) ==
    IF extracted.k = "raise" THEN extracted
    ELSE LET objs == _iter_jsonld_objects(Get(extracted, "json-ld").v)
             items == FallbackItems(extracted)
             obj == FirstMatch(objs, [i \in 1..Len(objs) |-> JsonLdMatches(objs[i])])
         IN  IF obj # Null THEN obj
             ELSE FirstMatch(items, [i \in 1..Len(items) |-> ItemMatches(items[i])])

---------------------------------------------------------------------------
(* Instruction flattening                                                  *)

RECURSIVE KeysOf(_)
\* The keys of an object, one after another.  Python keeps them in insertion
\* order, which the objects here do not record; objects whose printed form is
\* used have one key.
KeysOf(keys) ==
    IF keys = {} THEN <<>>
    ELSE LET key == CHOOSE c \in keys : TRUE IN <<key>> \o KeysOf(keys \ {key})

RECURSIVE PyRepr(_)
\* repr(x), for strings without quotes or escapes.
PyRepr(x) ==
    LET Joined(parts) ==
            Chain([i \in 1..Len(parts) |-> IF i = 1 THEN parts[i] ELSE <<",", " ">> \o parts[i]])
    IN  CASE x.k = "str" -> <<"'">> \o x.v \o <<"'">>
          [] x.k = "int" -> ToDigits(x.v)
          [] x.k = "null" -> <<"N", "o", "n", "e">>
          [] x.k = "list" ->
                <<"[">> \o Joined([i \in 1..Len(x.v) |-> PyRepr(x.v[i])]) \o <<"]">>
          [] x.k = "dict" ->
                LET keys == KeysOf(DOMAIN x.v)
                IN  <<"{">>
                    \o Joined([i \in 1..Len(keys) |->
                                  <<"'", keys[i], "'", ":", " ">> \o PyRepr(x.v[keys[i]])])
                    \o <<"}">>

\* str(x): a string is itself, anything else its printed form.
PyStr(x) == IF x.k = "str" THEN x.v ELSE PyRepr(x)

\* add_text that forgets to trim.
add_text_untrimmed(steps, val) ==
    IF val = Null THEN steps
    ELSE IF PyStr(val) # <<>> THEN Append(steps, PyStr(val)) ELSE steps

\* add_text(val) on the steps collected so far.
add_text(steps, val) ==
    IF val = Null THEN steps
    ELSE LET s == strip(PyStr(val))
         IN  IF s # <<>> THEN Append(steps, s) ELSE steps

RECURSIVE split_lines(_)
\* s.split("\n")
split_lines(s) ==
    IF \E i \in 1..Len(s) : s[i] = "NL"
    THEN LET i == CHOOSE i \in 1..Len(s) : s[i] = "NL" /\ \A j \in 1..(i - 1) : s[j] # "NL"
         IN  <<SubSeq(s, 1, i - 1)>> \o split_lines(SubSeq(s, i + 1, Len(s)))
    ELSE <<s>>

RECURSIVE AddAll(_, _)
\* add_text for every value of vals in turn.
AddAll(steps, vals) ==
    IF vals = <<>> THEN steps ELSE AddAll(add_text(steps, Head(vals)), Tail(vals))

RECURSIVE _extract_instructions(_)
RECURSIVE WalkItems(_, _)

\* The loop over a list of instructions, from the steps collected so far.
WalkItems(steps, items) ==
    IF items = <<>> THEN steps
    ELSE LET it == Head(items)
             more ==
                 IF it.k = "dict"
                 THEN IF "itemListElement" \in DOMAIN it.v
                      THEN steps \o _extract_instructions(it.v["itemListElement"])
                      ELSE add_text(steps, Or(Get(it, "text"), Get(it, "name")))
                 ELSE add_text(steps, it)
         IN  WalkItems(more, Tail(items))

\* [s for s in steps if s]
NonEmpty(steps) == SelectSeq(steps, LAMBDA s : s # <<>>)

_extract_instructions(instr) ==
    CASE instr.k = "str" ->
            LET lines == split_lines(instr.v)
            IN  NonEmpty(AddAll(<<>>, [i \in 1..Len(lines) |-> Str(lines[i])]))
      [] instr.k = "list" -> NonEmpty(WalkItems(<<>>, instr.v))
      [] OTHER -> <<>>

---------------------------------------------------------------------------
(* Durations handed to _minutes                                            *)

DurMax == 2

\* The numbers a duration component is drawn from.
DurNums == (0..DurMax) \cup {30, 90}

OptNums == {Null} \cup {Num(n) : n \in DurNums}

\* One component of a duration text: nothing when absent, else digits and unit.
Part(x, unit) == IF x = Null THEN <<>> ELSE ToDigits(x.v) \o unit

\* The text P[n]D[T[n]H[n]M[n]S] with the given components.
IsoText(d, h, m, s, t) ==
    <<"P">> \o Part(d, <<"D">>)
    \o (IF t THEN <<"T">> \o Part(h, <<"H">>) \o Part(m, <<"M">>) \o Part(s, <<"S">>)
        ELSE <<>>)

IsoTexts ==
    {IsoText(d, h, m, s, t) : d \in OptNums, h \in OptNums, m \in OptNums,
                              s \in OptNums, t \in {TRUE}}
    \cup {IsoText(d, Null, Null, Null, FALSE) : d \in OptNums}

\* Texts in words: "<n> <unit>" parts with a choice of unit spelling and spacing.
DayUnits == {<<"d">>, <<" ", "d", "a", "y", "s">>}
HourUnits == {<<"h">>, <<" ", "h", "o", "u", "r">>, <<"H">>}
MinuteUnits == {<<"m">>, <<" ", "m", "i", "n", "s">>, <<"M">>}
Gaps == {<<>>, <<" ">>}

HumanTexts ==
    {Part(d, du) \o g \o Part(h, hu) \o g \o Part(m, mu) :
        d \in {Null, Num(1)}, h \in {Null, Num(1), Num(2)}, m \in {Null, Num(30)},
        du \in DayUnits, hu \in HourUnits, mu \in MinuteUnits, g \in Gaps}

\* Texts of neither form, and values that are no text at all.
OtherTexts ==
    {<<>>, <<" ">>, <<"P", "1", "H">>, <<"T", "1", "H">>, <<"p", "t", "1", "h">>,
     <<"P", "T", "1", "M", "1", "H">>, <<"P", "1", "D", "2", "H">>, <<"3", "0">>,
     <<"a", "b", "o", "u", "t", " ", "3", "0", " ", "m", "i", "n", "u", "t", "e", "s">>,
     <<" ", "P", "T", "5", "M", " ">>, <<"P", "T", "5", "M", "NL">>}

NonTexts == {Null, Num(0), Num(30), List(<<>>), List(<<Str(<<"P", "T", "5", "M">>)>>)}

DurInputs == {Str(s) : s \in IsoTexts \cup HumanTexts \cup OtherTexts} \cup NonTexts

InitDur ==
    /\ NoPipeline
    /\ pc = "minutes"
    /\ arg \in DurInputs
    /\ rets = <<>>

CallMinutes ==
    /\ pc = "minutes"
    /\ rets = <<>>
    /\ rets' = <<_minutes(arg)>>
    /\ UNCHANGED <<pc, arg, pipeline>>

NextDur == CallMinutes

SpecDur == InitDur /\ [][NextDur]_vars

\* days*1440 + hours*60 + minutes + floor(seconds/60) of the components, absent
\* components counting 0.
Val(x) == IF x = Null THEN 0 ELSE x.v

IsoTotal(d, h, m, s) == Val(d) * 1440 + Val(h) * 60 + Val(m) + (Val(s) \div 60)

\* Every text of the ISO subset within the bounds with the result the claim
\* gives it: the total when it is at least 1, absent when it is 0.
IsoTable ==
    {<<IsoText(d, h, m, s, t),
       IF IsoTotal(d, h, m, s) >= 1 THEN Num(IsoTotal(d, h, m, s)) ELSE Null>> :
        d \in OptNums, h \in OptNums, m \in OptNums, s \in OptNums, t \in {TRUE}}
    \cup {<<IsoText(d, Null, Null, Null, FALSE),
            IF IsoTotal(d, Null, Null, Null) >= 1 THEN Num(IsoTotal(d, Null, Null, Null))
            ELSE Null>> : d \in OptNums}

\* C2: on a text of the ISO subset _minutes returns
\* days*1440 + hours*60 + minutes + floor(seconds/60), and absent, never 0,
\* when that is 0; "PT1H30M" gives 90, "P1DT2H" 1560 and "PT0M" absent.
C2_IsoMinutes ==
    (pc = "minutes" /\ rets # <<>>) =>
        /\ \A e \in IsoTable : arg = Str(e[1]) => rets[1] = e[2]
        /\ rets[1] # Num(0)
        /\ arg = Str(<<"P", "T", "1", "H", "3", "0", "M">>) => rets[1] = Num(90)
        /\ arg = Str(<<"P", "1", "D", "T", "2", "H">>) => rets[1] = Num(1560)
        /\ arg = Str(<<"P", "T", "0", "M">>) => rets[1] = Null

\* A text of the ISO subset with a seconds component has been parsed to a total.
C2_Witness ==
    /\ pc = "minutes" /\ rets = <<Num(1561)>>
    /\ arg = Str(<<"P", "1", "D", "T", "2", "H", "9", "0", "S">>)

\* days*1440 + hours*60 + minutes of the components of a text in words.
HumanTotal(d, h, m) == Val(d) * 1440 + Val(h) * 60 + Val(m)

\* Every text in words within the bounds, and one with a word before its
\* number, with the result the claim gives it.
HumanTable ==
    {<<Part(d, du) \o g \o Part(h, hu) \o g \o Part(m, mu),
       IF HumanTotal(d, h, m) >= 1 THEN Num(HumanTotal(d, h, m)) ELSE Null>> :
        d \in {Null, Num(1)}, h \in {Null, Num(1), Num(2)}, m \in {Null, Num(30)},
        du \in DayUnits, hu \in HourUnits, mu \in MinuteUnits, g \in Gaps}
    \cup {<<<<"a", "b", "o", "u", "t", " ", "3", "0", " ", "m", "i", "n", "u", "t", "e", "s">>,
            Num(30)>>}

\* C11: on a non-empty text that is not of the ISO subset, _minutes finds the
\* "<n> d", "<n> h" and "<n> m" parts (any subset, either case, with or
\* without a unit word, with or without a space before the unit, wherever in
\* the text) and returns days*1440 + hours*60 + minutes, absent when that is
\* 0; "1 hour 30 minutes" and "1h30m" give 90, "about 30 minutes" 30.
C11_HumanMinutes ==
    (pc = "minutes" /\ rets # <<>>) =>
        \A e \in HumanTable :
            (e[1] # <<>> /\ ~IsoMatch(e[1]).ok /\ arg = Str(e[1])) => rets[1] = e[2]

---------------------------------------------------------------------------
(* Normalisation, the fallback, and the record they build                  *)

\* deep_clean on a list that keeps the strings cleaning has emptied.
RECURSIVE deep_clean_keeping(_)
deep_clean_keeping(x) ==
    CASE x.k = "str" -> Str(clean_text(x.v))
      [] x.k = "list" -> List([i \in 1..Len(x.v) |-> deep_clean_keeping(x.v[i])])
      [] x.k = "dict" -> Dict([key \in DOMAIN x.v |-> deep_clean_keeping(x.v[key])])
      [] OTHER -> x

RECURSIVE deep_clean(_)
deep_clean(x) ==
    CASE x.k = "str" -> Str(clean_text(x.v))
      [] x.k = "list" ->
            LET out == [i \in 1..Len(x.v) |-> deep_clean(x.v[i])]
            IN  List(SelectSeq(out, LAMBDA v : v.k # "str" \/ v.v # <<>>))
      [] x.k = "dict" -> Dict([key \in DOMAIN x.v |-> deep_clean(x.v[key])])
      [] OTHER -> x

\* _as_text_list: the texts of the entries, or the AttributeError of .strip()
\* on a kept entry that is no string.
_as_text_list(maybe_list) ==
    LET l == _coerce_list(maybe_list).v
        out == [i \in 1..Len(l) |->
                   IF l[i].k = "dict" /\ "text" \in DOMAIN l[i].v THEN l[i].v["text"]
                   ELSE Str(PyStr(l[i]))]
        kept == SelectSeq(out, LAMBDA s : Truthy(s) /\ strip(PyStr(s)) # <<>>)
    IN  IF \E i \in 1..Len(kept) : kept[i].k # "str" THEN Raised("AttributeError")
        ELSE List([i \in 1..Len(kept) |-> Str(strip(kept[i].v))])

LEGAL_NOTE == Str(<<"For personal use/research only.">>)

Schemes == {"http://", "https://"}

\* urlparse(url).hostname, for a URL written as scheme, host, then the rest.
hostname(u) ==
    IF Len(u) >= 2 /\ u[1] \in Schemes THEN Str(<<u[2]>>) ELSE Null

\* [s for s in l if s.strip()] on a list of strings.
Unblank(l) == SelectSeq(l, LAMBDA s : strip(s.v) # <<>>)

normalize_recipe(recipe_obj, page_url) ==
    LET title == Or(Or(Get(recipe_obj, "name"), Get(recipe_obj, "headline")),
                    Str(<<"Untitled">>))
        desc == Get(recipe_obj, "description")
        yield == PyStr(Or(Get(recipe_obj, "recipeYield"), Str(<<>>)))
        servings == IF yield # <<>> THEN Str(yield) ELSE Null
        ingredients == _as_text_list(Or(Get(recipe_obj, "recipeIngredient"),
                                        Get(recipe_obj, "ingredients")))
        found == _extract_instructions(Get(recipe_obj, "recipeInstructions"))
        steps == [i \in 1..Len(found) |-> Str(found[i])]
        prep == _minutes(Get(recipe_obj, "prepTime"))
        cook == _minutes(Get(recipe_obj, "cookTime"))
        total == _minutes(Get(recipe_obj, "totalTime"))
    IN  IF \/ ingredients.k = "raise"
           \/ title.k # "str"
           \/ "raise" \in {prep.k, cook.k, total.k}
        THEN Raised("AttributeError")
        ELSE deep_clean(Dict(
                 ("title" :> Str(strip(title.v)))
              @@ ("description" :> Or(desc, Null))
              @@ ("servings" :> servings)
              @@ ("prep_time_min" :> prep)
              @@ ("cook_time_min" :> cook)
              @@ ("total_time_min" :> total)
              @@ ("image_url" :> Null)
              @@ ("ingredients" :> List(Unblank(ingredients.v)))
              @@ ("steps" :> List(Unblank(steps)))
              @@ ("source_url" :> Str(page_url))
              @@ ("source_host" :> hostname(page_url))
              @@ ("extraction" :> Str(<<"structured">>))
              @@ ("legal_note" :> LEGAL_NOTE)))

\* The unit words an ingredient line is recognised by.
UnitTokens == {"cup", "cups", "tsp", "tbsp", "teaspoon", "tablespoon",
               "g", "gram", "kg", "ml", "l", "oz", "ounce", "lb"}

\* any(tok in c.lower() for tok in tokens), for a text whose unit words are
\* written as atoms.
HasUnit(c) == \E i \in 1..Len(c) : Lower(c[i]) \in UnitTokens

RECURSIVE WordCount(_)
\* len(s.split())
WordCount(s) ==
    IF s = <<>> THEN 0
    ELSE IF Head(s) \in Whitespace THEN WordCount(Tail(s))
    ELSE IF Len(s) >= 2 /\ s[2] \notin Whitespace THEN WordCount(Tail(s))
    ELSE 1 + WordCount(Tail(s))

ListCap == 50

\* l[:n]
Take(l, n) == SubSeq(l, 1, IF Len(l) < n THEN Len(l) ELSE n)

\* The fallback labelling its record as the structured path does.
FallbackExtraction_structured == Str(<<"structured">>)

\* "extraction": "readability"
FallbackExtraction == Str(<<"readability">>)

\* readability_fallback, given what the readability library made of the page:
\* its short title, the texts of the list items and of the paragraphs of its
\* summary, or the exception it raised on a page it cannot parse.
readability_fallback(readable, page_url) ==
    IF readable.k = "raise" THEN readable
    ELSE LET title == strip(Or(readable.title, Str(<<"Untitled">>)).v)
             candidates == [i \in 1..Len(readable.lis) |-> Str(strip(readable.lis[i]))]
             ingredients == SelectSeq(candidates, LAMBDA c : HasUnit(c.v))
             paras == SelectSeq(readable.ps, LAMBDA q : WordCount(q) > 5)
             steps == [i \in 1..Len(paras) |-> Str(strip(paras[i]))]
         IN  deep_clean(Dict(
                 ("title" :> Str(title))
              @@ ("description" :> Null)
              @@ ("servings" :> Null)
              @@ ("prep_time_min" :> Null)
              @@ ("cook_time_min" :> Null)
              @@ ("total_time_min" :> Null)
              @@ ("image_url" :> Null)
              @@ ("ingredients" :> List(Take(ingredients, ListCap)))
              @@ ("steps" :> List(Take(steps, ListCap)))
              @@ ("source_url" :> Str(page_url))
              @@ ("source_host" :> hostname(page_url))
              @@ ("extraction" :> FallbackExtraction)
              @@ ("legal_note" :> LEGAL_NOTE)))

---------------------------------------------------------------------------
(* Pages: what extruct.extract returns for them                            *)

\* A page is described by its structured-data objects in document order, at
\* most MaxObjects of them.  Each entry says where the object sits ("top": a
\* JSON-LD block of its own; "graph": a member of the "@graph" of the JSON-LD
\* object before it; "arr": the first member of a new top-level JSON-LD array;
\* "arr+": a further member of that array; "microdata", "rdfa": an item of
\* that syntax; "malformed": markup one of the parsers fails on) and what its
\* "@type" is.
MaxObjects == 3

TypeValues ==
    [none |-> Null, recipe |-> Recipe, other |-> Str(<<"Other">>),
     both |-> List(<<Str(<<"Other">>), Recipe>>)]

Entries ==
    [at : {"top"}, ty : {"none", "recipe", "other", "both", "notdict"}]
    \cup [at : {"graph"}, ty : {"recipe", "other", "both", "notdict"}]
    \cup [at : {"arr", "arr+"}, ty : {"none", "recipe"}]
    \cup [at : {"microdata"}, ty : {"recipe", "other", "both"}]
    \cup [at : {"rdfa"}, ty : {"recipe", "other"}]
    \cup [at : {"malformed"}, ty : {"json-ld", "microdata"}]

\* The object of entry e, the i-th of the page.
MkObject(e, i) ==
    IF e.ty = "notdict" THEN Str(<<"text">>)
    ELSE IF e.ty = "none" THEN Dict(("@id" :> Num(i)))
    ELSE Dict(("@id" :> Num(i)) @@ ("@type" :> TypeValues[e.ty]))

\* obj with node added at the end of its "@graph".
AddToGraph(obj, node) ==
    LET graph == Get(obj, "@graph")
        members == IF graph = Null THEN <<>> ELSE graph.v
    IN  Dict(("@graph" :> List(Append(members, node))) @@ obj.v)

ReplaceLast(l, x) == [l EXCEPT ![Len(l)] = x]

EmptyPage == [jsonld |-> <<>>, microdata |-> <<>>, rdfa |-> <<>>, failed |-> FALSE]

\* The page so far with entry e, its i-th, added; an entry with nothing to
\* attach to adds nothing.
AddEntry(page, e, i) ==
    LET j == page.jsonld
        last == j[Len(j)]
        obj == MkObject(e, i)
    IN  CASE e.at = "top" -> [page EXCEPT !.jsonld = Append(j, obj)]
          [] e.at = "arr" -> [page EXCEPT !.jsonld = Append(j, List(<<obj>>))]
          [] e.at = "arr+" ->
                IF j # <<>> /\ last.k = "list"
                THEN [page EXCEPT !.jsonld = ReplaceLast(j, List(Append(last.v, obj)))]
                ELSE page
          [] e.at = "graph" ->
                IF j # <<>> /\ last.k = "dict"
                THEN [page EXCEPT !.jsonld = ReplaceLast(j, AddToGraph(last, obj))]
                ELSE IF j # <<>> /\ last.k = "list" /\ last.v[Len(last.v)].k = "dict"
                THEN [page EXCEPT !.jsonld = ReplaceLast(j,
                         List(ReplaceLast(last.v, AddToGraph(last.v[Len(last.v)], obj))))]
                ELSE page
          [] e.at = "microdata" -> [page EXCEPT !.microdata = Append(@, obj)]
          [] e.at = "rdfa" -> [page EXCEPT !.rdfa = Append(@, obj)]
          [] e.at = "malformed" -> [page EXCEPT !.failed = TRUE]

RECURSIVE BuildPage(_, _)
BuildPage(entries, n) ==
    IF n = 0 THEN EmptyPage ELSE AddEntry(BuildPage(entries, n - 1), entries[n], n)

\* extruct.extract(content, syntaxes=["json-ld", "microdata", "rdfa"]) with its
\* default errors="strict": the lists of the three syntaxes, or the exception
\* of the parser that failed.
Extracted(page) ==
    IF page.failed THEN Raised("ParserError")
    ELSE Dict(("json-ld" :> List(page.jsonld)) @@ ("microdata" :> List(page.microdata))
              @@ ("rdfa" :> List(page.rdfa)))

\* What extraction returns for the page the entries describe.
Extraction(entries) == Extracted(BuildPage(entries, Len(entries)))

InitStruct ==
    /\ NoPipeline
    /\ pc = "parse_structured"
    /\ arg \in {Extraction(entries) : entries \in SeqsUpTo(Entries, MaxObjects)}
    /\ rets = <<>>

CallParseStructured ==
    /\ pc = "parse_structured"
    /\ rets = <<>>
    /\ rets' = <<parse_structured(arg)>>
    /\ UNCHANGED <<pc, arg, pipeline>>

NextStruct == CallParseStructured

SpecStruct == InitStruct /\ [][NextStruct]_vars

\* Whether x is an object whose type is "Recipe" or a list holding "Recipe".
RecipeTyped(x) ==
    /\ x.k = "dict"
    /\ "@type" \in DOMAIN x.v
    /\ \/ x.v["@type"] = Recipe
       \/ /\ x.v["@type"].k = "list"
          /\ \E i \in DOMAIN x.v["@type"].v : x.v["@type"].v[i] = Recipe

\* The members of the "@graph" array of x, if it has one.
GraphOf(x) ==
    IF x.k = "dict" /\ "@graph" \in DOMAIN x.v /\ x.v["@graph"].k = "list"
    THEN x.v["@graph"].v
    ELSE <<>>

\* The candidate sequence of a page: the JSON-LD blocks with top-level arrays
\* expanded one level and every object followed by the members of its "@graph",
\* then the microdata items, then the RDFa items.
Candidates(extracted) ==
    LET blocks == extracted.v["json-ld"].v
        expanded == Chain([i \in 1..Len(blocks) |->
                              IF blocks[i].k = "list" THEN blocks[i].v ELSE <<blocks[i]>>])
    IN  Chain([i \in 1..Len(expanded) |-> <<expanded[i]>> \o GraphOf(expanded[i])])
        \o extracted.v["microdata"].v \o extracted.v["rdfa"].v

\* C3: parse_structured returns the first Recipe-typed object of the candidate
\* sequence (JSON-LD in document order with arrays expanded one level and each
\* object followed by its "@graph" members, then microdata, then RDFa), and
\* None exactly when no candidate is Recipe-typed.
C3_FirstRecipe ==
    (pc = "parse_structured" /\ rets # <<>> /\ arg.k = "dict") =>
        LET c == Candidates(arg)
            hits == {i \in 1..Len(c) : RecipeTyped(c[i])}
        IN  IF hits = {} THEN rets[1] = Null
            ELSE rets[1] = c[CHOOSE i \in hits : \A j \in hits : i <= j]

\* A Recipe found only in the "@graph" of an untyped top-level object is
\* returned although a microdata Recipe is present too.
C3_Witness ==
    /\ pc = "parse_structured" /\ rets # <<>> /\ arg.k = "dict"
    /\ Len(arg.v["json-ld"].v) = 1
    /\ arg.v["json-ld"].v[1].k = "dict"
    /\ ~RecipeTyped(arg.v["json-ld"].v[1])
    /\ \E i \in 1..Len(GraphOf(arg.v["json-ld"].v[1])) :
          rets[1] = GraphOf(arg.v["json-ld"].v[1])[i]
    /\ RecipeTyped(rets[1])
    /\ \E i \in 1..Len(arg.v["microdata"].v) : RecipeTyped(arg.v["microdata"].v[i])

---------------------------------------------------------------------------
(* Instruction values handed to _extract_instructions                      *)

\* An instruction list is described by its leaves in source order, at most
\* MaxSteps of them, each with the number of sections around it, at most
\* MaxDepth.
MaxSteps == 3

MaxDepth == 2

StepA == Dict(("text" :> Str(<<"a">>)))
StepB == Dict(("text" :> Str(<<" ", "b", " ">>)) @@ ("name" :> Str(<<"a">>)))
StepC == Dict(("text" :> Str(<<>>)) @@ ("name" :> Str(<<"c">>)))

Steps == {StepA, StepB, StepC}

\* Elements that are no step: a text of two lines, a number, nothing, and a
\* section whose list is a text.
NonSteps ==
    {Str(<<"a", "NL", "b">>), Num(5), Null,
     Dict(("itemListElement" :> Str(<<"a", "NL", " ", "NL", "b", " ">>)))}

\* Steps sit at every depth, the other elements at the top and at the bottom.
Leaves == [lvl : 0..MaxDepth, leaf : Steps] \cup [lvl : {0, MaxDepth}, leaf : NonSteps]

Section(items) == Dict(("itemListElement" :> List(items)))

RECURSIVE DeeperRun(_, _)
\* The length of the longest prefix of es that lies deeper than lvl.
DeeperRun(es, lvl) ==
    IF es # <<>> /\ Head(es).lvl > lvl THEN 1 + DeeperRun(Tail(es), lvl) ELSE 0

RECURSIVE BuildItems(_, _)
\* The list at depth lvl that the leaves es describe: a leaf of this depth is
\* an element, a run of deeper leaves is one section.
BuildItems(es, lvl) ==
    IF es = <<>> THEN <<>>
    ELSE IF Head(es).lvl <= lvl THEN <<Head(es).leaf>> \o BuildItems(Tail(es), lvl)
    ELSE LET n == DeeperRun(es, lvl)
         IN  <<Section(BuildItems(SubSeq(es, 1, n), lvl + 1))>>
             \o BuildItems(SubSeq(es, n + 1, Len(es)), lvl)

\* Values that are no list: a text of several lines, nothing, a number, and a
\* single object.
OtherInstructions ==
    {Str(<<" ", "a", " ", "NL", " ", "NL", "b">>), Str(<<>>), Null, Num(5), StepA,
     Section(<<StepA>>)}

InitInstr ==
    /\ NoPipeline
    /\ pc = "_extract_instructions"
    /\ arg \in {List(BuildItems(es, 0)) : es \in SeqsUpTo(Leaves, MaxSteps)}
               \cup OtherInstructions
    /\ rets = <<>>

CallExtractInstructions ==
    /\ pc = "_extract_instructions"
    /\ rets = <<>>
    /\ rets' = <<_extract_instructions(arg)>>
    /\ UNCHANGED <<pc, arg, pipeline>>

NextInstr == CallExtractInstructions

SpecInstr == InitInstr /\ [][NextInstr]_vars

\* The text a leaf of a list contributes, untrimmed: the lines of a string
\* that stands for a nested list, the text (else name) field of an object, the
\* string form of a scalar.
RECURSIVE RawTexts(_)
RawTexts(x) ==
    CASE x.k = "list" -> Chain([i \in 1..Len(x.v) |->
            LET el == x.v[i]
            IN  IF el.k = "dict" /\ "itemListElement" \in DOMAIN el.v
                THEN RawTexts(el.v["itemListElement"])
                ELSE IF el.k = "dict"
                THEN (IF "text" \in DOMAIN el.v /\ Truthy(el.v["text"])
                      THEN <<PyStr(el.v["text"])>>
                      ELSE IF "name" \in DOMAIN el.v THEN <<PyStr(el.v["name"])>>
                      ELSE <<>>)
                ELSE IF el.k = "null" THEN <<>>
                ELSE <<PyStr(el)>>])
      [] x.k = "str" -> split_lines(x.v)
      [] OTHER -> <<>>

\* The texts trimmed, the empty ones left out, the order kept.
TrimmedNonEmpty(texts) ==
    SelectSeq([i \in 1..Len(texts) |-> strip(texts[i])], LAMBDA s : s # <<>>)

RECURSIVE Nested(_, _)
\* items inside n sections, one within the other.
Nested(items, n) == IF n = 0 THEN items ELSE <<Section(Nested(items, n - 1))>>

\* C4: _extract_instructions returns the trimmed non-empty step texts in source
\* order, sections flattened in place; a section of three steps flattens to
\* exactly those three texts in order at any depth.
C4_Flatten ==
    (pc = "_extract_instructions" /\ rets # <<>>) =>
        /\ rets[1] = TrimmedNonEmpty(RawTexts(arg))
        /\ \A n \in 1..MaxDepth :
              arg = List(Nested(<<StepA, StepB, StepC>>, n)) =>
                  rets[1] = <<<<"a">>, <<"b">>, <<"c">>>>

\* A section of three steps, itself inside a section, has been flattened.
C4_Witness ==
    /\ pc = "_extract_instructions"
    /\ arg = List(<<Section(<<Section(<<StepA, StepB, StepC>>)>>)>>)
    /\ rets = <<<<<<"a">>, <<"b">>, <<"c">>>>>>

---------------------------------------------------------------------------
(* Recipe objects handed to normalize_recipe, and readable pages handed to *)
(* readability_fallback                                                    *)

\* The longest ingredient or instruction list, the most fields an object of
\* mixed shapes has, and the most list items and paragraphs of a page.
MaxEntries == 3

MaxFields == 2

MaxParas == 2

\* Entries of an ingredient or instruction list: texts, texts that cleaning
\* empties (an entity, a tag, a zero-width character, a blank), an object with
\* a text, a number, and an object whose text is a number.
ListEntries ==
    {Str(<<"a">>), Str(<<" ", "b", " ">>), Str(<<"&", "nbsp;">>), Str(<<"<", "b", ">">>),
     Str(<<"ZW">>), Str(<<" ">>), Dict(("text" :> Str(<<"c">>))), Num(5),
     Dict(("text" :> Num(5)))}

\* A field and a value for it, of every shape: missing is the field left out.
FieldChoices ==
    ({"name"} \X {Str(<<" ", "T", " ">>), Num(7), List(<<Str(<<"T">>)>>), StepA})
    \cup ({"headline"} \X {Str(<<"H">>)})
    \cup ({"description"} \X {Str(<<"d", "&", "amp;", "d">>), List(<<Str(<<" ">>), Str(<<"d">>)>>)})
    \cup ({"recipeYield"} \X {Str(<<"4">>), Num(4), Num(0), List(<<Str(<<"4">>)>>)})
    \cup ({"recipeIngredient"} \X {Str(<<"a">>), StepA, Num(5), Null})
    \cup ({"ingredients"} \X {List(<<Str(<<"a">>)>>)})
    \cup ({"recipeInstructions"} \X {Str(<<"a", "NL", "b">>), StepA, Num(5)})
    \cup ({"prepTime"} \X {Str(<<"P", "T", "5", "M">>), Num(30), Num(0),
                           List(<<Str(<<"P", "T", "5", "M">>)>>), StepA})
    \cup ({"cookTime"} \X {Str(<<"P", "T", "0", "M">>), Str(<<"1", " ", "h">>)})
    \cup ({"totalTime"} \X {Str(<<>>), Null})

RECURSIVE WithFields(_, _)
\* obj with the fields of the choices set, a later choice replacing an earlier.
WithFields(obj, choices) ==
    IF choices = <<>> THEN obj
    ELSE WithFields(Dict((Head(choices)[1] :> Head(choices)[2]) @@ obj.v), Tail(choices))

BareRecipe == Dict(("@type" :> Recipe))

\* What the readability library makes of a page.
Readable(title, lis, ps) == [k |-> "readable", title |-> title, lis |-> lis, ps |-> ps]

ItemTexts ==
    {<<" ", "1", " ", "cup", " ", "a">>, <<"<", "g", ">">>, <<"a", " ", "b">>}

ParaTexts ==
    {<<"a", " ", "a", " ", "a", " ", "a", " ", "a", " ", "b", " ">>,
     <<"ZW", " ", "ZW", " ", "ZW", " ", "ZW", " ", "ZW", " ", "ZW">>,
     <<"a", " ", "a", " ", "a", " ", "a", " ", "a">>}

SampleUrl == <<"https://", "a.com", "/", "r">>

InitNorm ==
    /\ NoPipeline
    /\ pc = "normalize"
    /\ arg \in {WithFields(BareRecipe, <<<<"recipeIngredient", List(l)>>>>) :
                   l \in SeqsUpTo(ListEntries, MaxEntries)}
          \cup {WithFields(BareRecipe, <<<<"recipeInstructions", List(l)>>>>) :
                   l \in SeqsUpTo(ListEntries, MaxEntries)}
          \cup {WithFields(BareRecipe, choices) : choices \in SeqsUpTo(FieldChoices, MaxFields)}
          \cup {Readable(title, lis, ps) :
                   title \in {Null, Str(<<" ", "T">>)},
                   lis \in SeqsUpTo(ItemTexts, MaxParas),
                   ps \in SeqsUpTo(ParaTexts, MaxParas)}
    /\ rets = <<>>

CallNormalize ==
    /\ pc = "normalize"
    /\ arg.k = "dict"
    /\ rets = <<>>
    /\ rets' = <<normalize_recipe(arg, SampleUrl)>>
    /\ UNCHANGED <<pc, arg, pipeline>>

CallFallback ==
    /\ pc = "normalize"
    /\ arg.k = "readable"
    /\ rets = <<>>
    /\ rets' = <<readability_fallback(arg, SampleUrl)>>
    /\ UNCHANGED <<pc, arg, pipeline>>

NextNorm == CallNormalize \/ CallFallback

SpecNorm == InitNorm /\ [][NextNorm]_vars

\* The texts a value sanitises to: each cleaned, the empty ones left out, the
\* order kept.
CleanedNonEmpty(texts) ==
    SelectSeq([i \in 1..Len(texts) |-> Str(clean_text(texts[i]))], LAMBDA s : s.v # <<>>)

\* The text of an entry of the ingredient field: its text field, else its
\* string form.
EntryText(x) == IF x.k = "dict" /\ "text" \in DOMAIN x.v THEN PyStr(x.v["text"]) ELSE PyStr(x)

\* The ingredient and the step texts of the source, in source order.
SourceIngredients(src) ==
    IF src.k = "readable"
    THEN SelectSeq(src.lis, LAMBDA c : \E i \in 1..Len(c) : c[i] \in UnitTokens)
    ELSE LET field == IF "recipeIngredient" \in DOMAIN src.v /\ Truthy(src.v["recipeIngredient"])
                      THEN src.v["recipeIngredient"]
                      ELSE IF "ingredients" \in DOMAIN src.v THEN src.v["ingredients"]
                      ELSE Null
             entries == IF field.k = "list" THEN field.v
                        ELSE IF field.k = "null" THEN <<>> ELSE <<field>>
         IN  [i \in 1..Len(entries) |-> EntryText(entries[i])]

SourceSteps(src) ==
    IF src.k = "readable"
    THEN SelectSeq(src.ps, LAMBDA q : WordCount(q) > 5)
    ELSE IF "recipeInstructions" \in DOMAIN src.v THEN RawTexts(src.v["recipeInstructions"])
    ELSE <<>>

Blank(s) == \A i \in 1..Len(s) : s[i] \in Whitespace \cup {"NBSP"}

\* C6: in every record normalize_recipe or readability_fallback returns,
\* ingredients and steps are lists of strings, none empty or all white space,
\* and they are the source's texts, sanitised, in source order, without the
\* ones sanitising empties.
C6_NoBlankEntries ==
    (pc = "normalize" /\ rets # <<>> /\ rets[1].k = "dict") =>
        /\ \A f \in {"ingredients", "steps"} :
              /\ rets[1].v[f].k = "list"
              /\ \A i \in 1..Len(rets[1].v[f].v) :
                    /\ rets[1].v[f].v[i].k = "str"
                    /\ ~Blank(rets[1].v[f].v[i].v)
        /\ rets[1].v["ingredients"].v = CleanedNonEmpty(SourceIngredients(arg))
        /\ rets[1].v["steps"].v = CleanedNonEmpty(SourceSteps(arg))

\* An ingredient list with an entry that an entity empties between two that
\* stay has been normalised.
C6_Witness ==
    /\ pc = "normalize"
    /\ arg = WithFields(BareRecipe,
                 <<<<"recipeIngredient",
                     List(<<Str(<<"a">>), Str(<<"&", "nbsp;">>), Str(<<" ", "b", " ">>)>>)>>>>)
    /\ rets # <<>> /\ rets[1].k = "dict"
    /\ rets[1].v["ingredients"] = List(<<Str(<<"a">>), Str(<<"b">>)>>)

\* C7: normalize_recipe returns a record, whatever the shape of each field.
C7_NormalizeTotal ==
    (pc = "normalize" /\ arg.k = "dict" /\ rets # <<>>) => rets[1].k = "dict"

---------------------------------------------------------------------------
(* scrape: fetch, parse_structured, then normalize_recipe or the fallback  *)

\* Transport failures of the request, and the status codes of an answer.
TransportErrors == {"ConnectError", "TimeoutException"}

StatusCodes == {200, 404}

\* fetch(url), given what the network answers after redirects: the failure of
\* the transport or of raise_for_status, or the final address and the body.
fetch(u, answer) ==
    IF answer.k = "error" THEN Raised(answer.v)
    ELSE IF answer.status >= 400 THEN Raised("HTTPStatusError")
    ELSE [k |-> "ok", final_url |-> answer.url, content |-> answer.content]

FetchErrors == TransportErrors \cup {"HTTPStatusError"}

Urls == {SampleUrl, <<"http://", "b.com", "/", "r">>}

FinalUrls == Urls \cup {<<"https://", "c.com", "/", "r", "?", "x", "&", "amp;", "y">>}

SampleRecipe ==
    WithFields(BareRecipe,
        <<<<"name", Str(<<" ", "T", " ">>)>>,
          <<"recipeYield", Num(4)>>,
          <<"recipeIngredient", List(<<Str(<<"a">>), Str(<<"&", "nbsp;">>), StepB>>)>>,
          <<"recipeInstructions", List(<<Section(<<StepA, StepB>>), StepC>>)>>,
          <<"prepTime", Str(<<"P", "T", "1", "H", "3", "0", "M">>)>>,
          <<"cookTime", Str(<<"P", "T", "0", "M">>)>>>>)

\* A Recipe whose prepTime is a number.
OddRecipe == WithFields(BareRecipe, <<<<"prepTime", Num(30)>>>>)

MicroRecipe ==
    Dict(("@type" :> List(<<Recipe>>)) @@ ("name" :> Str(<<"M">>)))

\* A page: what extruct makes of it and what readability makes of it.
Pages ==
    [extracted : {Extracted([jsonld |-> j, microdata |-> m, rdfa |-> <<>>, failed |-> f]) :
                     j \in {<<>>, <<SampleRecipe>>,
                            <<Dict(("@graph" :> List(<<SampleRecipe>>)))>>,
                            <<Dict(("@type" :> Str(<<"Other">>)))>>, <<OddRecipe>>},
                     m \in {<<>>, <<MicroRecipe>>},
                     f \in BOOLEAN},
     readable : {Raised("Unparseable"),
                 Readable(Null, <<>>, <<>>),
                 Readable(Str(<<" ", "T">>),
                          <<<<" ", "1", " ", "cup", " ", "a">>, <<"<", "g", ">">>>>,
                          <<<<"a", " ", "a", " ", "a", " ", "a", " ", "a", " ", "b", " ">>>>)}]

Answers ==
    [k : {"error"}, v : TransportErrors]
    \cup [k : {"answer"}, status : StatusCodes, url : FinalUrls, content : Pages]

Init ==
    /\ pc = "scrape"
    /\ arg = Null
    /\ rets = <<>>
    /\ url \in Urls
    /\ fetches = 0
    /\ response = Null
    /\ final_url = <<>>
    /\ content = Null
    /\ data = Null
    /\ result = Null

\* final_url, content = fetch(url), the request failing: the exception leaves
\* scrape.
FetchRaises ==
    /\ pc = "scrape"
    /\ \E answer \in Answers :
          /\ fetch(url, answer).k = "raise"
          /\ response' = answer
          /\ result' = fetch(url, answer)
    /\ fetches' = fetches + 1
    /\ pc' = "raised"
    /\ UNCHANGED <<arg, rets, url, final_url, content, data>>

\* final_url, content = fetch(url), the request answered.
FetchReturns ==
    /\ pc = "scrape"
    /\ \E answer \in Answers :
          /\ fetch(url, answer).k = "ok"
          /\ response' = answer
          /\ final_url' = fetch(url, answer).final_url
          /\ content' = fetch(url, answer).content
    /\ fetches' = fetches + 1
    /\ pc' = "fetched"
    /\ UNCHANGED <<arg, rets, url, data, result>>

\* data = parse_structured(content, final_url)
ParseStructured ==
    /\ pc = "fetched"
    /\ LET found == parse_structured(content.extracted)
       IN  IF found.k = "raise"
           THEN /\ result' = found
                /\ pc' = "raised"
                /\ UNCHANGED data
           ELSE /\ data' = found
                /\ pc' = "parsed"
                /\ UNCHANGED result
    /\ UNCHANGED <<arg, rets, url, fetches, response, final_url, content>>

\* Where scrape is once a call has returned or raised.
After(outcome) == IF outcome.k = "raise" THEN "raised" ELSE "returned"

\* return normalize_recipe(data, final_url) if data
Normalize ==
    /\ pc = "parsed"
    /\ Truthy(data)
    /\ result' = normalize_recipe(data, final_url)
    /\ pc' = After(normalize_recipe(data, final_url))
    /\ UNCHANGED <<arg, rets, url, fetches, response, final_url, content, data>>

\* else readability_fallback(content, final_url)
Fallback ==
    /\ pc = "parsed"
    /\ ~Truthy(data)
    /\ result' = readability_fallback(content.readable, final_url)
    /\ pc' = After(readability_fallback(content.readable, final_url))
    /\ UNCHANGED <<arg, rets, url, fetches, response, final_url, content, data>>

Next == FetchRaises \/ FetchReturns \/ ParseStructured \/ Normalize \/ Fallback

Spec == Init /\ [][Next]_vars

\* Whether the page has a Recipe-typed candidate.
HasRecipe(page) ==
    /\ page.extracted.k = "dict"
    /\ \E i \in 1..Len(Candidates(page.extracted)) : RecipeTyped(Candidates(page.extracted)[i])

\* C5: a record returned for a page without a Recipe-typed object has
\* extraction "readability" and no servings or times; extraction is
\* "structured" only when a Recipe-typed object was matched, and is never
\* anything else.
C5_PathSelection ==
    pc = "returned" =>
        /\ result.v["extraction"] \in {Str(<<"structured">>), Str(<<"readability">>)}
        /\ ~HasRecipe(content) =>
              /\ result.v["extraction"] = Str(<<"readability">>)
              /\ \A f \in {"servings", "prep_time_min", "cook_time_min", "total_time_min"} :
                    result.v[f] = Null
        /\ result.v["extraction"] = Str(<<"structured">>) =>
              HasRecipe(content) /\ RecipeTyped(data)

\* A page whose only JSON-LD object is no Recipe has come back through the
\* fallback.
C5_Witness ==
    /\ pc = "returned"
    /\ content.extracted.k = "dict" /\ content.extracted.v["json-ld"].v # <<>>
    /\ ~HasRecipe(content)
    /\ result.v["extraction"] = Str(<<"readability">>)

CanonicalFields ==
    {"title", "description", "servings", "prep_time_min", "cook_time_min", "total_time_min",
     "ingredients", "steps", "source_url", "source_host", "extraction", "legal_note",
     "raw_json"}

\* C8: every record scrape returns has exactly the canonical fields as keys,
\* raw_json included: the matched object on the structured path, absent on the
\* fallback path.
C8_CanonicalFields ==
    pc = "returned" =>
        /\ DOMAIN result.v = CanonicalFields
        /\ result.v["raw_json"] =
              (IF result.v["extraction"] = Str(<<"structured">>) THEN data ELSE Null)

\* C9: scrape issues exactly one fetch; when it fails the error leaves scrape,
\* nothing was extracted and no record is returned; when it succeeds the
\* record's source_url is the final address and its source_host that
\* address's host, not those of the requested one.
C9_FetchOnce ==
    /\ fetches = (IF pc = "scrape" THEN 0 ELSE 1)
    /\ (response # Null /\ fetch(url, response).k = "raise") =>
          /\ pc = "raised"
          /\ result = fetch(url, response)
          /\ content = Null /\ data = Null
    /\ pc = "returned" =>
          /\ result.k = "dict"
          /\ result.v["source_url"] = Str(response.url)
          /\ result.v["source_host"] = Str(<<response.url[2]>>)

\* C10: a parser failing on the page's markup never aborts scrape.
C10_ParserFailureTolerated ==
    (pc \notin {"scrape", "fetched"} /\ content # Null /\ content.extracted.k = "raise") =>
        pc = "returned"

---------------------------------------------------------------------------
(* Sanitising a string, and sanitising the result again                    *)

MaxTextLen == 4

TextChars == {"&", "amp;", "lt;", "gt;", "nbsp;", "<", ">", "b", " ", "ZW", "NL"}

InitClean ==
    /\ NoPipeline
    /\ pc = "clean"
    /\ arg \in SeqsUpTo(TextChars, MaxTextLen)
    /\ rets = <<>>

\* deep_clean(x) for a string x, applied to the input and then to its own result.
CleanOnce ==
    /\ pc = "clean"
    /\ rets = <<>>
    /\ rets' = <<clean_text(arg)>>
    /\ UNCHANGED <<pc, arg, pipeline>>

CleanAgain ==
    /\ pc = "clean"
    /\ Len(rets) = 1
    /\ rets' = Append(rets, clean_text(rets[1]))
    /\ UNCHANGED <<pc, arg, pipeline>>

NextClean == CleanOnce \/ CleanAgain

SpecClean == InitClean /\ [][NextClean]_vars

\* C1: sanitisation is idempotent: cleaning a cleaned string changes nothing,
\* doubly-escaped entities included.
C1_Idempotent == Len(rets) = 2 => rets[2] = rets[1]

====
